---- MODULE Spec2Model ----
(***************************************************************************)
(* UnalignedBlockDevice (source/unaligned_blockdevice.h): a wrapper that   *)
(* turns byte-granular program/read/erase requests into full-page reads    *)
(* and programs of an underlying BlockDevice, keeping one page in a        *)
(* heap-allocated page buffer tagged by _last_page.                        *)
(*                                                                         *)
(* Buffers are functions over 0..n-1, as C arrays are.  The wrapped        *)
(* BlockDevice is an in-memory device of bd_size bytes in pages of         *)
(* bd_read_size bytes, whose calls fail when the harness injects a fault   *)
(* or when the address range is not inside the device.                     *)
(***************************************************************************)
EXTENDS Integers, Sequences, FiniteSets, TLC

\* ---------------------------------------------------------------- bounds
\* devices the adapter is run on: <<page size, number of pages>>
Geometries == {<<1, 3>>, <<2, 2>>, <<3, 1>>}
\* adapter calls per behaviour, and device or allocation faults among them
MaxOps == 3
MaxFaults == 1
\* adapter calls per behaviour of the deeper specifications
DeepOps == 4
\* uint32_t is modelled with PageIndexBits bits; arithmetic on page, offset
\* and length wraps at 2^PageIndexBits exactly as it wraps at 2^32.
PageIndexBits == 4

\* ------------------------------------------------------- program constants
BD_ERROR_OK == 0
BD_ERROR_DEVICE_ERROR == -4001
BD_ERROR_NO_MEMORY == -4002
BD_ERROR_NOT_INITIALIZED == -4003
NULL == 0
\* erase fills the page buffer with this byte
ErasePattern == 255
\* the error code an injected device fault returns
InjectedError == -5
\* what a read of released memory may yield
GarbageByte == 170
\* the caller's out buffer before read() writes to it
Untouched == 77

Wrap(x) == x % (2 ^ PageIndexBits)
NoPage == Wrap(-1)

Min(a, b) == IF a < b THEN a ELSE b

\* ------------------------------------------------------------- the state
VARIABLES
    bd_read_size,   \* what _block_device->get_read_size() returns
    bd_size,        \* what _block_device->size() returns
    dev,            \* device contents, [0..bd_size-1 -> byte]
    heap,           \* addresses of the live heap blocks
    mem,            \* contents of the block _page_buffer points at
    _page_size,
    _total_size,
    _page_buffer,   \* NULL or a heap address (possibly released)
    _last_page,
    destroyed,      \* the destructor has run
    last,           \* the last adapter call: arguments, result, device calls
    everInitOk,     \* some init() has returned BD_ERROR_OK
    doubleFree,     \* free() was called on a block that was not live
    useAfterFree,   \* released memory was read or written
    runPage,        \* page of the current run of successful same-page calls
    runReads,       \* device reads of runPage issued during that run
    faultsLeft,     \* faults the harness may still inject
    opsLeft         \* adapter calls the harness may still make

vars == <<bd_read_size, bd_size, dev, heap, mem, _page_size, _total_size, _page_buffer, _last_page,
          destroyed, last, everInitOk, doubleFree, useAfterFree, runPage,
          runReads, faultsLeft, opsLeft>>

\* ------------------------------------------------------ the block device
\* every byte of the device starts with a value of its own
InitialByte(a) == 10 + a
InitialDevice(size) == [a \in 0..(size - 1) |-> InitialByte(a)]

\* bytes the caller passes to program(): buffer k holds a value of its own at
\* every index
CallerByte(k, i) == 100 + 20 * k + i
CallerBuffer(k, size) == [i \in 0..(size - 1) |-> CallerByte(k, i)]

\* calloc((size_t)_page_size, 1), with _page_size just read from the device
ZeroPage == [i \in 0..(bd_read_size - 1) |-> 0]
\* memset(_page_buffer, 0xff, _page_size)
ErasedPage == [i \in 0..(_page_size - 1) |-> ErasePattern]
GarbagePage == [i \in 0..(_page_size - 1) |-> GarbageByte]

\* BlockDevice::is_valid_read / is_valid_program
IsValid(addr, size) ==
    /\ addr % bd_read_size = 0
    /\ size % bd_read_size = 0
    /\ addr + size <= bd_size

\* status of the n-th device call of an adapter call; failAt is the index
\* of the call the harness makes fail (0: none)
DeviceStatus(n, failAt, addr, size) ==
    IF n = failAt THEN InjectedError
    ELSE IF ~IsValid(addr, size) THEN BD_ERROR_DEVICE_ERROR
    ELSE BD_ERROR_OK

DevicePage(d, addr) == [i \in 0..(bd_read_size - 1) |-> d[addr + i]]

DeviceProgram(d, addr, data) ==
    [a \in DOMAIN d |->
        IF a >= addr /\ a < addr + bd_read_size THEN data[a - addr] ELSE d[a]]

\* ------------------------------------------------------------ the heap
\* free(p)
FreeHeap(h, p) == h \ {p}
\* calloc returns a block that is not live; the allocator may reuse an address
AllocAddress(h) == CHOOSE p \in 1..(Cardinality(h) + 1) : p \notin h

\* What the adapter finds in the page buffer. A released buffer (live =
\* FALSE) is undefined behaviour: either the old bytes are still there
\* (intact) or the block has been reused and holds other data.
Load(m, live, intact) == IF live \/ intact THEN m ELSE GarbagePage
Store(m, new, live, intact) == IF live \/ intact THEN new ELSE m

\* the adapter as constructed (l.53-57), on a device of the given geometry
Constructed(pageSize, pages, ops, faults) ==
    /\ bd_read_size = pageSize
    /\ bd_size = pageSize * pages
    /\ dev = InitialDevice(pageSize * pages)
    /\ heap = {}
    /\ mem = [i \in 0..(pageSize - 1) |-> 0]
    /\ _page_size = 0
    /\ _total_size = 0
    /\ _page_buffer = NULL
    /\ _last_page = NoPage
    /\ destroyed = FALSE
    /\ last = [op |-> "new", addr |-> 0, size |-> 0, k |-> 0,
               ret |-> BD_ERROR_OK, calls |-> <<>>, copies |-> <<>>,
               out |-> <<>>, lastBefore |-> NoPage]
    /\ everInitOk = FALSE
    /\ doubleFree = FALSE
    /\ useAfterFree = FALSE
    /\ runPage = NoPage
    /\ runReads = 0
    /\ faultsLeft = faults
    /\ opsLeft = ops

Init == \E g \in Geometries : Constructed(g[1], g[2], MaxOps, MaxFaults)

\* the guard of program, read and erase: if (!_page_buffer) return ...
IsInitializedBySize == _page_size # 0
IsInitialized == _page_buffer # NULL

\* uint32_t page = addr / _page_size
PageOf(addr) == Wrap(addr \div _page_size)
\* uint32_t offset = addr % _page_size
OffsetZero(addr) == 0
OffsetOf(addr) == Wrap(addr % _page_size)
\* uint32_t length = _page_size - offset; if (length > bytes_left) length = bytes_left
ChunkLength(offset, left) ==
    LET room == Wrap(_page_size - offset)
    IN IF room > left THEN left ELSE room

\* if (_last_page != page): the page must be fetched from the device
AlwaysRead(lastp, page) == TRUE
NeedRead(lastp, page) == lastp # page

\* if (r != 0) return r
NeverFailed(r) == FALSE
Failed(r) == r # 0

DeviceCall(op, addr, size, ret, data) ==
    [op |-> op, addr |-> addr, size |-> size, ret |-> ret, data |-> data]
NoData == <<>>

\* ------------------------------------------------------- program (l.86-142)
\* One pass of the while loop per page. st: addr, left (bytes_left), src
\* (offset into the caller's buffer), dev, mem, lastp (_last_page), calls
\* (device calls issued), copies (memcpy calls made), ret.
RECURSIVE ProgramLoop(_, _, _, _, _)
ProgramLoop(st, k, failAt, live, intact) ==
    IF st.left = 0 THEN [st EXCEPT !.ret = BD_ERROR_OK]
    ELSE
    LET page == PageOf(st.addr)
        offset == OffsetOf(st.addr)
        length == ChunkLength(offset, st.left)
        paddr == page * _page_size
        needRead == NeedRead(st.lastp, page)
        r1 == DeviceStatus(Len(st.calls) + 1, failAt, paddr, _page_size)
        calls1 == IF needRead
                  THEN Append(st.calls, DeviceCall("read", paddr, _page_size,
                                                   r1, NoData))
                  ELSE st.calls
    IN
    IF needRead /\ Failed(r1)
    THEN [st EXCEPT !.ret = r1, !.calls = calls1]
    ELSE
    LET mem1 == IF needRead
                THEN Store(st.mem, DevicePage(st.dev, paddr), live, intact)
                ELSE st.mem
        merged == [i \in 0..(_page_size - 1) |->
                      IF i >= offset /\ i < offset + length
                      THEN CallerByte(k, st.src + (i - offset))
                      ELSE Load(mem1, live, intact)[i]]
        mem2 == Store(mem1, merged, live, intact)
        copies2 == Append(st.copies, [page |-> page, offset |-> offset,
                                      src |-> st.src, length |-> length])
        r2 == DeviceStatus(Len(calls1) + 1, failAt, paddr, _page_size)
        calls2 == Append(calls1, DeviceCall("program", paddr, _page_size, r2,
                                            Load(mem2, live, intact)))
    IN
    IF Failed(r2)
    THEN [st EXCEPT !.ret = r2, !.calls = calls2, !.copies = copies2,
                    !.mem = mem2]
    ELSE ProgramLoop(
            [st EXCEPT !.dev = DeviceProgram(st.dev, paddr,
                                             Load(mem2, live, intact)),
                       !.mem = mem2, !.calls = calls2, !.copies = copies2,
                       !.left = st.left - length,
                       !.addr = st.addr + length,
                       !.src = st.src + length,
                       !.lastp = page],
            k, failAt, live, intact)

\* --------------------------------------------------------- read (l.144-177)
RECURSIVE ReadLoop(_, _, _, _)
ReadLoop(st, failAt, live, intact) ==
    IF st.left = 0 THEN [st EXCEPT !.ret = BD_ERROR_OK]
    ELSE
    LET page == PageOf(st.addr)
        offset == OffsetOf(st.addr)
        length == ChunkLength(offset, st.left)
        paddr == page * _page_size
        needRead == NeedRead(st.lastp, page)
        r1 == DeviceStatus(Len(st.calls) + 1, failAt, paddr, _page_size)
        calls1 == IF needRead
                  THEN Append(st.calls, DeviceCall("read", paddr, _page_size,
                                                   r1, NoData))
                  ELSE st.calls
    IN
    IF needRead /\ Failed(r1)
    THEN [st EXCEPT !.ret = r1, !.calls = calls1]
    ELSE
    LET mem1 == IF needRead
                THEN Store(st.mem, DevicePage(st.dev, paddr), live, intact)
                ELSE st.mem
        out2 == [i \in DOMAIN st.out |->
                    IF i >= st.src /\ i < st.src + length
                    THEN Load(mem1, live, intact)[offset + (i - st.src)]
                    ELSE st.out[i]]
    IN
    ReadLoop([st EXCEPT !.mem = mem1, !.calls = calls1, !.out = out2,
                        !.copies = Append(st.copies,
                            [page |-> page, offset |-> offset,
                             src |-> st.src, length |-> length]),
                        !.left = st.left - length,
                        !.addr = st.addr + length,
                        !.src = st.src + length,
                        !.lastp = page],
             failAt, live, intact)

\* -------------------------------------------------------- erase (l.179-199)
EraseStartPage(addr) == PageOf(addr)
EraseEndPage(addr, size) == Wrap((addr + size) \div _page_size)

\* size_t ix: as wide as uint32_t on the 32-bit targets, twice as wide on
\* LP64 builds
SizeWidths == {PageIndexBits, 2 * PageIndexBits}
WrapSize(n, sizeBits) == n % (2 ^ sizeBits)
\* what `last.ret` holds for a call that does not return
NoReturn == 1

\* the for loop: ix runs from start_page to end_page inclusive; ix++ wraps
\* at the width of size_t. Once ix has wrapped, ix <= end_page has held for
\* the largest size_t and so holds for every ix: the loop then ends only at
\* a failing device call, and does not end when none is to come
RECURSIVE EraseLoop(_, _, _, _, _, _, _)
EraseLoop(st, ix, end_page, failAt, live, intact, sizeBits) ==
    IF ~(ix <= end_page) THEN [st EXCEPT !.ret = BD_ERROR_OK]
    ELSE
    LET paddr == ix * _page_size
        next == WrapSize(ix + 1, sizeBits)
        r == DeviceStatus(Len(st.calls) + 1, failAt, paddr, _page_size)
        calls1 == Append(st.calls, DeviceCall("program", paddr, _page_size, r,
                                              Load(st.mem, live, intact)))
        st1 == [st EXCEPT !.dev = DeviceProgram(st.dev, paddr,
                                                Load(st.mem, live, intact)),
                          !.calls = calls1]
    IN
    IF Failed(r)
    THEN [st EXCEPT !.ret = r, !.calls = calls1]
    ELSE IF next < ix /\ failAt <= Len(calls1)
    THEN [st1 EXCEPT !.ret = NoReturn]
    ELSE EraseLoop(st1, next, end_page, failAt, live, intact, sizeBits)

\* _last_page after a successful erase (l.194-196)
EraseLastPageKept(lastp, start_page, end_page) == lastp
EraseLastPage(lastp, start_page, end_page) ==
    IF lastp >= start_page /\ lastp <= end_page THEN NoPage ELSE lastp

\* ------------------------------------------------------------ the harness
\* requests inside the device: addr + size <= total size
Requests == {rq \in (0..bd_size) \X (0..bd_size) : rq[1] + rq[2] <= bd_size}
Patterns == {0, 1}
\* which of the n device calls of an adapter call is made to fail (0: none)
FailChoices(n) == IF faultsLeft > 0 THEN 0..n ELSE {0}
\* a released page buffer either still holds its bytes or does not
IntactChoices == IF _page_buffer \in heap THEN {TRUE} ELSE BOOLEAN

Live == _page_buffer \in heap

NoCopies == <<>>
NoOut == <<>>

Injected(calls) == \E i \in 1..Len(calls) : calls[i].ret = InjectedError

\* the pages a request covers, when it covers any byte
FirstPage(addr) == addr \div bd_read_size
LastPage(addr, size) == (addr + size - 1) \div bd_read_size

ReadsOf(calls, page) ==
    Cardinality({i \in 1..Len(calls) :
                    calls[i].op = "read" /\ calls[i].addr = page * bd_read_size})

\* bookkeeping of the current run of successful reads and programs that stay
\* on one page; a call of size 0 touches no page and leaves the run as it is
RunStep(rec) ==
    IF rec.op \in {"read", "program"} /\ rec.ret = BD_ERROR_OK /\ rec.size = 0
    THEN /\ runPage' = runPage
         /\ runReads' = runReads
    ELSE IF /\ rec.op \in {"read", "program"}
            /\ rec.ret = BD_ERROR_OK
            /\ FirstPage(rec.addr) = LastPage(rec.addr, rec.size)
    THEN /\ runPage' = FirstPage(rec.addr)
         /\ runReads' = (IF runPage = FirstPage(rec.addr) THEN runReads ELSE 0)
                        + ReadsOf(rec.calls, FirstPage(rec.addr))
    ELSE /\ runPage' = NoPage
         /\ runReads' = 0

Called(rec) ==
    /\ last' = rec
    /\ opsLeft' = opsLeft - 1
    /\ faultsLeft' = faultsLeft - (IF \/ Injected(rec.calls)
                                       \/ rec.ret = BD_ERROR_NO_MEMORY
                                    THEN 1 ELSE 0)
    /\ RunStep(rec)

\* ------------------------------------------------------------ init (l.66-84)
\* devRet: what _block_device->init() returns; allocOk: whether calloc
\* returns a block
init(devRet, allocOk) ==
    LET heap1 == IF _page_buffer # NULL THEN FreeHeap(heap, _page_buffer)
                 ELSE heap
        dfree == _page_buffer # NULL /\ _page_buffer \notin heap
        block == AllocAddress(heap1)
        initCall == <<DeviceCall("init", 0, 0, devRet, NoData)>>
        ret == IF Failed(devRet) THEN devRet
               ELSE IF ~allocOk THEN BD_ERROR_NO_MEMORY
               ELSE BD_ERROR_OK
    IN
    /\ doubleFree' = (doubleFree \/ dfree)
    /\ IF Failed(devRet)
       THEN /\ heap' = heap1
            /\ UNCHANGED <<_page_size, _total_size, _page_buffer, mem>>
       ELSE /\ _page_size' = bd_read_size
            /\ _total_size' = bd_size
            /\ IF allocOk
               THEN /\ heap' = heap1 \cup {block}
                    /\ _page_buffer' = block
                    /\ mem' = ZeroPage
               ELSE /\ heap' = heap1
                    /\ _page_buffer' = NULL
                    /\ mem' = ZeroPage
    /\ everInitOk' = (everInitOk \/ ret = BD_ERROR_OK)
    /\ Called([op |-> "init", addr |-> 0, size |-> 0, k |-> 0, ret |-> ret,
               calls |-> initCall, copies |-> NoCopies, out |-> NoOut,
               lastBefore |-> _last_page])
    /\ UNCHANGED <<bd_read_size, bd_size, dev, _last_page, destroyed,
                   useAfterFree>>

\* --------------------------------------------------------- the three calls
NotInitialized(op, addr, size, k) ==
    /\ Called([op |-> op, addr |-> addr, size |-> size, k |-> k,
               ret |-> BD_ERROR_NOT_INITIALIZED, calls |-> <<>>,
               copies |-> NoCopies, out |-> NoOut, lastBefore |-> _last_page])
    /\ UNCHANGED <<bd_read_size, bd_size, dev, heap, mem, _page_size,
                   _total_size, _page_buffer, _last_page, destroyed,
                   everInitOk, doubleFree, useAfterFree>>

\* the loop of program, entered with the adapter's current state
ProgramRun(addr, size, k, failAt, intact) ==
    ProgramLoop([addr |-> addr, left |-> size, src |-> 0,
                 dev |-> dev, mem |-> mem, lastp |-> _last_page,
                 calls |-> <<>>, copies |-> NoCopies, ret |-> BD_ERROR_OK],
                k, failAt, Live, intact)

program(addr, size, k, failAt, intact) ==
    IF ~IsInitialized THEN NotInitialized("program", addr, size, k)
    ELSE
    LET res == ProgramRun(addr, size, k, failAt, intact)
    IN
    /\ dev' = res.dev
    /\ mem' = res.mem
    /\ _last_page' = res.lastp
    /\ useAfterFree' = (useAfterFree \/ (~Live /\ size > 0))
    /\ Called([op |-> "program", addr |-> addr, size |-> size, k |-> k,
               ret |-> res.ret, calls |-> res.calls, copies |-> res.copies,
               out |-> NoOut, lastBefore |-> _last_page])
    /\ UNCHANGED <<bd_read_size, bd_size, heap, _page_size, _total_size,
                   _page_buffer, destroyed, everInitOk, doubleFree>>

\* the loop of read, entered with the adapter's current state
ReadRunMerging(addr, size, failAt, intact) ==
    ProgramRun(addr, size, 0, failAt, intact)
        @@ [out |-> [i \in 0..(size - 1) |-> Untouched]]
ReadRun(addr, size, failAt, intact) ==
    ReadLoop([addr |-> addr, left |-> size, src |-> 0,
              dev |-> dev, mem |-> mem, lastp |-> _last_page,
              calls |-> <<>>, copies |-> NoCopies,
              out |-> [i \in 0..(size - 1) |-> Untouched],
              ret |-> BD_ERROR_OK],
             failAt, Live, intact)

read(addr, size, failAt, intact) ==
    IF ~IsInitialized THEN NotInitialized("read", addr, size, 0)
    ELSE
    LET res == ReadRun(addr, size, failAt, intact)
    IN
    /\ mem' = res.mem
    /\ _last_page' = res.lastp
    /\ useAfterFree' = (useAfterFree \/ (~Live /\ size > 0))
    /\ Called([op |-> "read", addr |-> addr, size |-> size, k |-> 0,
               ret |-> res.ret, calls |-> res.calls, copies |-> res.copies,
               out |-> res.out, lastBefore |-> _last_page])
    /\ UNCHANGED <<bd_read_size, bd_size, dev, heap, _page_size,
                   _total_size, _page_buffer, destroyed, everInitOk,
                   doubleFree>>

\* the memset and the loop of erase, entered with the adapter's current state
EraseRun(addr, size, failAt, intact, sizeBits) ==
    EraseLoop([dev |-> dev, mem |-> Store(mem, ErasedPage, Live, intact),
               calls |-> <<>>, ret |-> BD_ERROR_OK],
              EraseStartPage(addr), EraseEndPage(addr, size),
              failAt, Live, intact, sizeBits)

erase(addr, size, failAt, intact, sizeBits) ==
    IF ~IsInitialized THEN NotInitialized("erase", addr, size, 0)
    ELSE
    LET start_page == EraseStartPage(addr)
        end_page == EraseEndPage(addr, size)
        filled == Store(mem, ErasedPage, Live, intact)
        res == EraseRun(addr, size, failAt, intact, sizeBits)
    IN
    /\ dev' = res.dev
    /\ mem' = filled
    /\ _last_page' = (IF res.ret = BD_ERROR_OK
                      THEN EraseLastPage(_last_page, start_page, end_page)
                      ELSE _last_page)
    /\ useAfterFree' = (useAfterFree \/ ~Live)
    /\ Called([op |-> "erase", addr |-> addr, size |-> size, k |-> 0,
               ret |-> res.ret, calls |-> res.calls, copies |-> NoCopies,
               out |-> NoOut, lastBefore |-> _last_page])
    /\ UNCHANGED <<bd_read_size, bd_size, heap, _page_size, _total_size,
                   _page_buffer, destroyed, everInitOk, doubleFree>>

\* -------------------------------------------------- destructor (l.59-61)
destructor ==
    /\ heap' = (IF _page_buffer # NULL THEN FreeHeap(heap, _page_buffer)
                ELSE heap)
    /\ doubleFree' = (doubleFree \/
                      (_page_buffer # NULL /\ _page_buffer \notin heap))
    /\ destroyed' = TRUE
    /\ last' = [op |-> "delete", addr |-> 0, size |-> 0, k |-> 0,
                ret |-> BD_ERROR_OK, calls |-> <<>>, copies |-> NoCopies,
                out |-> NoOut, lastBefore |-> _last_page]
    /\ UNCHANGED <<bd_read_size, bd_size, dev, mem, _page_size,
                   _total_size, _page_buffer, _last_page, everInitOk,
                   useAfterFree, runPage, runReads, faultsLeft, opsLeft>>

\* ----------------------------------------------------------- the actions
\* the caller is free to make its next call: its last call has returned
Returned == last.ret # NoReturn
CanCall == ~destroyed /\ opsLeft > 0 /\ Returned

DoInit ==
    /\ CanCall
    /\ \E devRet \in (IF faultsLeft > 0 THEN {0, InjectedError} ELSE {0}),
          allocOk \in (IF faultsLeft > 0 THEN BOOLEAN ELSE {TRUE}) :
          /\ devRet = 0 \/ allocOk
          /\ init(devRet, allocOk)

DoProgram ==
    /\ CanCall
    /\ \E rq \in Requests, k \in Patterns, intact \in IntactChoices :
          /\ rq[2] > 0 \/ k = 0
          /\ \E failAt \in FailChoices(
                    IF IsInitialized
                    THEN Len(ProgramRun(rq[1], rq[2], k, 0, intact).calls)
                    ELSE 0) :
                program(rq[1], rq[2], k, failAt, intact)

DoRead ==
    /\ CanCall
    /\ \E rq \in Requests, intact \in IntactChoices :
          \E failAt \in FailChoices(
                 IF IsInitialized
                 THEN Len(ReadRun(rq[1], rq[2], 0, intact).calls)
                 ELSE 0) :
             read(rq[1], rq[2], failAt, intact)

DoErase ==
    /\ CanCall
    /\ \E rq \in Requests, intact \in IntactChoices,
          sizeBits \in SizeWidths :
          \E failAt \in FailChoices(
                 IF IsInitialized
                 THEN Len(EraseRun(rq[1], rq[2], 0, intact, sizeBits).calls)
                 ELSE 0) :
             erase(rq[1], rq[2], failAt, intact, sizeBits)

DoDestroy ==
    /\ ~destroyed
    /\ Returned
    /\ destructor

Next == DoInit \/ DoProgram \/ DoRead \/ DoErase \/ DoDestroy

Spec == Init /\ [][Next]_vars

\* longer behaviours on a device that never fails
ReliableInit == \E g \in Geometries : Constructed(g[1], g[2], DeepOps, 0)
ReliableSpec == ReliableInit /\ [][Next]_vars

\* longer behaviours with faults
DeepInit == \E g \in Geometries : Constructed(g[1], g[2], DeepOps, MaxFaults)
DeepSpec == DeepInit /\ [][Next]_vars

\* short behaviours on larger devices, for requests that cover several pages
SplitGeometries == {<<5, 4>>}
SplitOps == 2
SplitInit == \E g \in SplitGeometries : Constructed(g[1], g[2], SplitOps, 0)
SplitNext == DoInit \/ DoProgram
SplitSpec == SplitInit /\ [][SplitNext]_vars

\* short behaviours on a device with as many pages as uint32_t has values,
\* with requests at its last two pages
WideGeometries == {<<1, 2 ^ PageIndexBits>>}
WideOps == 3
WideInit == \E g \in WideGeometries : Constructed(g[1], g[2], WideOps, 0)
TopRequests == {rq \in Requests : rq[1] + 2 * bd_read_size >= bd_size}

DoTopProgram ==
    /\ CanCall
    /\ \E rq \in TopRequests, k \in Patterns :
          /\ rq[2] > 0 \/ k = 0
          /\ program(rq[1], rq[2], k, 0, TRUE)

DoTopRead ==
    /\ CanCall
    /\ \E rq \in TopRequests : read(rq[1], rq[2], 0, TRUE)

DoTopErase ==
    /\ CanCall
    /\ \E rq \in TopRequests, sizeBits \in SizeWidths :
          erase(rq[1], rq[2], 0, TRUE, sizeBits)

WideNext == DoInit \/ DoTopProgram \/ DoTopRead \/ DoTopErase
WideSpec == WideInit /\ [][WideNext]_vars

\* =================================================================== claims
InRange(a, addr, size) == a >= addr /\ a < addr + size
IsCall(rec) == rec.op \in {"program", "read", "erase"}
Succeeded(rec) == rec.ret = BD_ERROR_OK
\* indices of the device program calls of a call that succeeded
Programmed(calls) ==
    {i \in 1..Len(calls) : calls[i].op = "program" /\ calls[i].ret = BD_ERROR_OK}
ProgrammedPages(calls) == {calls[i].addr \div bd_read_size : i \in Programmed(calls)}
\* the request covers at least one byte and all its bytes are in one page
WithinOnePage(rec) ==
    rec.size > 0 /\ FirstPage(rec.addr) = LastPage(rec.addr, rec.size)
StraddlesOneBoundary(rec) ==
    rec.size > 0 /\ LastPage(rec.addr, rec.size) = FirstPage(rec.addr) + 1

\* C1: between adapter calls, whenever the cache tag names a real page of the
\* device, the page buffer holds exactly the device's contents of that page.
CacheTagNamesPage ==
    _last_page # NoPage /\ (_last_page + 1) * bd_read_size <= bd_size
C1_CacheCoherence ==
    (~destroyed /\ IsInitialized /\ CacheTagNamesPage)
        => mem = DevicePage(dev, _last_page * bd_read_size)

\* C2: a successful program(buffer, addr, size) changes the device bytes in
\* [addr, addr+size) to the caller's bytes and leaves every other device byte
\* as it was before the call.
C2_ProgramPreservesSurroundingBytes ==
    [][(last'.op = "program" /\ Succeeded(last'))
        => \A a \in DOMAIN dev :
              dev'[a] = IF InRange(a, last'.addr, last'.size)
                        THEN CallerByte(last'.k, a - last'.addr)
                        ELSE dev[a]]_vars

\* C3: a successful program(buffer, addr, size) immediately followed by a
\* successful read(out, addr, size) yields out equal to buffer.
C3_RoundTrip ==
    [][(/\ last.op = "program" /\ Succeeded(last)
        /\ last'.op = "read" /\ Succeeded(last')
        /\ last'.addr = last.addr /\ last'.size = last.size)
        => last'.out = CallerBuffer(last.k, last.size)]_vars

\* C4: every successful init leaves the cache tag at "none".
C4_InitResetsCacheTag ==
    (last.op = "init" /\ Succeeded(last)) => _last_page = NoPage

\* C5: a successful erase whose byte range lies within one page programs
\* exactly that page, once; one whose range straddles exactly one page
\* boundary programs exactly the two pages it covers.
C5_EraseBoundary ==
    (last.op = "erase" /\ Succeeded(last) /\ last.size > 0)
        => /\ WithinOnePage(last)
                => /\ ProgrammedPages(last.calls) = {FirstPage(last.addr)}
                   /\ Len(last.calls) = 1
           /\ StraddlesOneBoundary(last)
                => /\ ProgrammedPages(last.calls) =
                          {FirstPage(last.addr), FirstPage(last.addr) + 1}
                   /\ Len(last.calls) = 2

\* C6: every allocated page buffer is released exactly once: never released
\* twice, never read or written after its release, and none is live once the
\* destructor has run.
C6_BufferLifecycleSafe ==
    /\ ~doubleFree
    /\ ~useAfterFree
    /\ destroyed => heap = {}

\* C7: while no init has succeeded, read, program and erase return
\* BD_ERROR_NOT_INITIALIZED, issue no device call, and change neither the
\* device nor the adapter.
C7_PreInitGuard ==
    [][(~everInitOk /\ IsCall(last'))
        => /\ last'.ret = BD_ERROR_NOT_INITIALIZED
           /\ last'.calls = <<>>
           /\ UNCHANGED <<dev, heap, mem, _page_size, _total_size,
                          _page_buffer, _last_page>>]_vars
\* a call made after an init that failed, with no init having succeeded
C7_Witness ==
    ~everInitOk /\ IsCall(last) /\ faultsLeft < MaxFaults

\* C9: in a run of successful reads and programs that all stay on one page,
\* the device is read at most once for that page.
C9_CacheEfficiency == runReads <= 1
\* the second call of a run is a read served from the page buffer
C9_Witness ==
    /\ last.op = "read" /\ Succeeded(last) /\ last.size > 0
    /\ last.calls = <<>>
    /\ runPage = FirstPage(last.addr)
    /\ runReads = 1

\* C10: when a device call fails during program, read or erase, it is the last
\* device call of the operation and the operation returns its error code; the
\* pages programmed before it hold what was programmed, and every other device
\* byte is as it was before the operation.
LastProgramOf(calls, a) ==
    {i \in Programmed(calls) :
        /\ InRange(a, calls[i].addr, calls[i].size)
        /\ \A j \in Programmed(calls) :
              InRange(a, calls[j].addr, calls[j].size) => j <= i}
C10_FirstErrorAbort ==
    [][IsCall(last')
        => /\ \A i \in 1..Len(last'.calls) :
                last'.calls[i].ret # BD_ERROR_OK
                    => /\ i = Len(last'.calls)
                       /\ last'.ret = last'.calls[i].ret
           /\ (\A i \in 1..Len(last'.calls) : last'.calls[i].ret = BD_ERROR_OK)
                => last'.ret \in {BD_ERROR_OK, BD_ERROR_NOT_INITIALIZED}
           /\ \A a \in DOMAIN dev :
                IF LastProgramOf(last'.calls, a) = {}
                THEN dev'[a] = dev[a]
                ELSE \A i \in LastProgramOf(last'.calls, a) :
                        dev'[a] = last'.calls[i].data[a - last'.calls[i].addr]]_vars
\* a program or erase that programmed a page and then met a failing device call
C10_Witness ==
    /\ last.op \in {"program", "erase"}
    /\ Programmed(last.calls) # {}
    /\ last.calls[Len(last.calls)].ret = InjectedError
    /\ last.ret = InjectedError

\* C8: a successful program of size > 0 issues exactly one device program call
\* for each page from floor(addr/page_size) to floor((addr+size-1)/page_size),
\* in ascending order, each at the page's address and one page long, and
\* merges into page p exactly the caller's bytes for
\* [max(addr, p*page_size), min(addr+size, (p+1)*page_size)); a program of
\* 2*page_size + 10 bytes at page_size - 5 programs exactly 4 pages.
ProgramCalls(calls) == SelectSeq(calls, LAMBDA c : c.op = "program")
Max(a, b) == IF a > b THEN a ELSE b
C8_SplitCorrect(rec) ==
    LET first == FirstPage(rec.addr)
        n == LastPage(rec.addr, rec.size) - first + 1
        progs == ProgramCalls(rec.calls)
    IN
    /\ Len(progs) = n
    /\ Len(rec.copies) = n
    /\ \A j \in 1..n :
          LET p == first + j - 1
              lo == Max(rec.addr, p * bd_read_size)
              hi == Min(rec.addr + rec.size, (p + 1) * bd_read_size)
          IN
          /\ progs[j].addr = p * bd_read_size
          /\ progs[j].size = bd_read_size
          /\ rec.copies[j] = [page |-> p, offset |-> lo - p * bd_read_size,
                              src |-> lo - rec.addr, length |-> hi - lo]
C8_MultiPageSplit ==
    (last.op = "program" /\ Succeeded(last) /\ last.size > 0)
        => /\ C8_SplitCorrect(last)
           /\ (last.addr = bd_read_size - 5 /\ last.size = 2 * bd_read_size + 10)
                => Len(ProgramCalls(last.calls)) = 4
\* the program of 2*page_size + 10 bytes at page_size - 5 has succeeded
C8_Witness ==
    /\ last.op = "program" /\ Succeeded(last)
    /\ last.addr = bd_read_size - 5
    /\ last.size = 2 * bd_read_size + 10

\* C11: when the underlying device's init fails, the adapter's init returns
\* the device's error code and does not release the page buffer it held:
\* the heap, the buffer pointer and the cache tag are as before the call.
C11_InitKeepsBufferOnFailure ==
    [][(last'.op = "init" /\ Failed(last'.calls[1].ret))
        => /\ last'.ret = last'.calls[1].ret
           /\ heap' = heap
           /\ _page_buffer' = _page_buffer
           /\ _last_page' = _last_page]_vars

\* C12: on a device that never fails, a successful read(out, addr, size)
\* returns for every byte of [addr, addr+size) the value the device holds at
\* that address.
C12_ReadsReflectDevice ==
    [][(last'.op = "read" /\ Succeeded(last'))
        => \A i \in 0..(last'.size - 1) :
              last'.out[i] = dev[last'.addr + i]]_vars

\* C13: for a program, read or erase request with addr + size <= total size,
\* every device read or program call the adapter issues is at a page-aligned
\* address a with a + page size <= total size.
C13_DeviceIOInBounds ==
    (IsCall(last) /\ last.addr + last.size <= bd_size)
        => \A i \in 1..Len(last.calls) :
              /\ last.calls[i].op \in {"read", "program"}
              /\ last.calls[i].addr % bd_read_size = 0
              /\ last.calls[i].addr + bd_read_size <= bd_size

\* C14: a successful erase(addr, size) issues no device read and programs a
\* full page of 0xFF to every page from start_page to end_page; a successful
\* read that follows it inside [addr, addr+size) returns 0xFF for every byte,
\* whatever the page buffer held before the erase.
ErasedAll(rec) ==
    /\ \A i \in 1..Len(rec.calls) :
          /\ rec.calls[i].op = "program"
          /\ rec.calls[i].size = bd_read_size
          /\ rec.calls[i].data = ErasedPage
    /\ \A p \in EraseStartPage(rec.addr)..EraseEndPage(rec.addr, rec.size) :
          \E i \in 1..Len(rec.calls) : rec.calls[i].addr = p * bd_read_size
C14_EraseComplete ==
    [][/\ (last'.op = "erase" /\ Succeeded(last')) => ErasedAll(last')
       /\ (/\ last.op = "erase" /\ Succeeded(last)
           /\ last'.op = "read" /\ Succeeded(last')
           /\ last'.addr >= last.addr
           /\ last'.addr + last'.size <= last.addr + last.size)
            => \A i \in 0..(last'.size - 1) : last'.out[i] = ErasePattern]_vars

\* C15: after a successful erase(addr, size) the cache tag is "none" if the
\* tag before the call named a page from start_page to end_page, and is the
\* tag before the call otherwise.
C15_EraseInvalidatesTag ==
    (last.op = "erase" /\ Succeeded(last))
        => _last_page =
              IF /\ last.lastBefore >= Wrap(last.addr \div bd_read_size)
                 /\ last.lastBefore <=
                        Wrap((last.addr + last.size) \div bd_read_size)
              THEN NoPage
              ELSE last.lastBefore
\* an erase has reset a tag that named an erased page
C15_WitnessReset ==
    /\ last.op = "erase" /\ Succeeded(last)
    /\ last.lastBefore # NoPage
    /\ _last_page = NoPage

\* C16: a read call, whether it succeeds or fails, issues no device program
\* call and leaves the device's contents unchanged; every device call it
\* makes is a read of one whole page that the request touches, and no page
\* is read more than once.
PagesTouched(rec) ==
    IF rec.size = 0 THEN {}
    ELSE FirstPage(rec.addr)..LastPage(rec.addr, rec.size)
C16_ReadDoesNotWrite ==
    [][(last'.op = "read")
        => /\ dev' = dev
           /\ \A i \in 1..Len(last'.calls) :
                 /\ last'.calls[i].op = "read"
                 /\ last'.calls[i].size = bd_read_size
                 /\ \E p \in PagesTouched(last') :
                       last'.calls[i].addr = p * bd_read_size
           /\ \A p \in PagesTouched(last') : ReadsOf(last'.calls, p) <= 1]_vars
\* a read over two pages whose second device read failed
C16_Witness ==
    /\ last.op = "read"
    /\ last.ret = InjectedError
    /\ Len(last.calls) = 2

\* C17: every program, read and erase call returns, after at most two device
\* calls per page touched for program, at most one per page touched for
\* read, and exactly one per page from start_page to end_page for a
\* successful erase, also when page indices reach the largest uint32_t.
CallsAt(calls, page) ==
    Cardinality({i \in 1..Len(calls) : calls[i].addr = page * bd_read_size})
C17_Termination ==
    IsCall(last)
        => /\ last.ret # NoReturn
           /\ last.op = "program"
                => /\ Len(last.calls) <= 2 * Cardinality(PagesTouched(last))
                   /\ \A p \in PagesTouched(last) : CallsAt(last.calls, p) <= 2
           /\ last.op = "read"
                => /\ Len(last.calls) <= Cardinality(PagesTouched(last))
                   /\ \A p \in PagesTouched(last) : CallsAt(last.calls, p) <= 1
           /\ (last.op = "erase" /\ Succeeded(last))
                => LET pages == Wrap(last.addr \div bd_read_size)..
                                Wrap((last.addr + last.size) \div bd_read_size)
                   IN /\ Len(last.calls) = Cardinality(pages)
                      /\ \A p \in pages : CallsAt(last.calls, p) = 1

\* C18: the cache tag "none" is equal to no page index computed from an
\* address, so while the tag is "none" (as it is after construction and the
\* first init) a read or program of size > 0 starts with a device read of the
\* request's first page.
C18_NoneIsNotAPage ==
    [][(/\ IsInitialized /\ _last_page = NoPage
        /\ last'.op \in {"read", "program"} /\ last'.size > 0)
        => /\ Wrap(last'.addr \div bd_read_size) # NoPage
           /\ last'.calls # <<>>
           /\ last'.calls[1].op = "read"
           /\ last'.calls[1].addr =
                 (last'.addr \div bd_read_size) * bd_read_size]_vars
====
